---- MODULE Spec2Model ----
(***************************************************************************)
(* Model of the calendar / date utilities of common-utils                  *)
(* (src/unnamed/part_003): weekday tables and conversion, week-of-month,   *)
(* week enumeration, date-picker selectability, default open month, safe   *)
(* date formatting, the pattern formatter and the epoch conversions.       *)
(*                                                                         *)
(* Every operation of the module is a pure function.  The state machine    *)
(* records one call at a time: the operation called, its arguments and the *)
(* value it returned.  The host time zone is a fixed offset chosen at      *)
(* start-up (no daylight-saving transitions).                              *)
(*                                                                         *)
(* Representation.                                                         *)
(*  - A JavaScript number that holds an integer is a record                *)
(*    [nan, hi, lo] standing for hi * MsPerDay + lo with 0 <= lo < MsPerDay *)
(*    (the values exceed 32 bits); nan = TRUE is NaN.                       *)
(*  - A Date is its time value (milliseconds since the epoch, UTC), NaN    *)
(*    for an Invalid Date.  hi is then the day number, lo the ms of day.    *)
(*  - A string is a sequence of one-character strings; a Korean character  *)
(*    is written as its code point ("U+C77C").  Weekday names are atoms.   *)
(*  - null is <<>> and a non-null result v is <<v>>.                       *)
(***************************************************************************)
EXTENDS Integers, Sequences, FiniteSets, TLC

----------------------------------------------------------------------------
(* Bounds of the explored inputs *)

\* calendar days explored on each side of the base day by the date-picker calls
DaySpan == 2

\* calendar days explored on each side of the base day by the weekday calls
WeekSpan == 4

\* months explored, from January 2025 on, by the week-of-month calls
MonthSpan == 12

\* epoch values explored next to each sample
EpochSpan == 2

\* console.error calls recorded
MaxLog == 1

\* tokens and separators put together to form a format pattern
PatternLen == 3

----------------------------------------------------------------------------
(* Integers wider than 32 bits *)

MsPerDay == 24 * 60 * 60 * 1000
SecPerDay == 24 * 60 * 60

NaN == [nan |-> TRUE, hi |-> 0, lo |-> 0]

\* the number hi * MsPerDay + lo, normalised
Num(hi, lo) == [nan |-> FALSE, hi |-> hi + (lo \div MsPerDay), lo |-> lo % MsPerDay]

Zero == Num(0, 0)

\* a < b on numbers; a comparison with NaN is false
NumLT(a, b) ==
    /\ ~a.nan
    /\ ~b.nan
    /\ \/ a.hi < b.hi
       \/ a.hi = b.hi /\ a.lo < b.lo

NumGT(a, b) == NumLT(b, a)

\* a * 1000
Times1000(a) ==
    IF a.nan THEN NaN
    ELSE Num(a.hi * 1000 + (a.lo \div SecPerDay), (a.lo % SecPerDay) * 1000)

\* a / 1000 rounded towards zero
FloorDiv1000_Trunc(a) ==
    IF a.nan THEN NaN
    ELSE IF a.hi < 0 /\ a.lo % 1000 # 0
         THEN Num(a.hi \div 1000, (a.hi % 1000) * SecPerDay + (a.lo \div 1000) + 1)
         ELSE Num(a.hi \div 1000, (a.hi % 1000) * SecPerDay + (a.lo \div 1000))

\* Math.floor(a / 1000)
FloorDiv1000(a) ==
    IF a.nan THEN NaN
    ELSE Num(a.hi \div 1000, (a.hi % 1000) * SecPerDay + (a.lo \div 1000))

\* a * 10 + d, used to read decimal digits
Times10Plus(a, d) == Num(a.hi * 10, a.lo * 10 + d)

\* the threshold 1000000000000 of formatSafeDate
MsThreshold == Num(11574, 6400000)

----------------------------------------------------------------------------
(* The Date object of the runtime *)

\* largest time value of a Date, in days (8.64e15 ms)
MaxDateDays == 100000000

\* new Date(t) for a number t: the time value, or Invalid Date out of range
DateOf(t) ==
    IF t.nan THEN NaN
    ELSE IF t.hi > MaxDateDays \/ (t.hi = MaxDateDays /\ t.lo > 0) THEN NaN
    ELSE IF t.hi < -MaxDateDays THEN NaN
    ELSE t

\* year, month (1..12) and day of month of a day number (proleptic Gregorian)
CivilFromDays(days) ==
    LET z == days + 719468
        era == z \div 146097
        doe == z - era * 146097
        yoe == (doe - (doe \div 1460) + (doe \div 36524) - (doe \div 146096)) \div 365
        doy == doe - (365 * yoe + (yoe \div 4) - (yoe \div 100))
        mp == (5 * doy + 2) \div 153
        d == doy - ((153 * mp + 2) \div 5) + 1
        m == IF mp < 10 THEN mp + 3 ELSE mp - 9
    IN [y |-> yoe + era * 400 + (IF m <= 2 THEN 1 ELSE 0), m |-> m, d |-> d]

\* day number of year y, month m (1..12), day d
DaysFromCivil(y, m, d) ==
    LET yy == IF m <= 2 THEN y - 1 ELSE y
        era == yy \div 400
        yoe == yy - era * 400
        mp == IF m > 2 THEN m - 3 ELSE m + 9
        doy == ((153 * mp + 2) \div 5) + d - 1
        doe == yoe * 365 + (yoe \div 4) - (yoe \div 100) + doy
    IN era * 146097 + doe - 719468

----------------------------------------------------------------------------
(* Local-time accessors of Date; tzMin is the host's offset from UTC in     *)
(* minutes.  They are used on valid dates only.                             *)

\* the time value shifted to local time
LocalTime(date, tzMin) == Num(date.hi, date.lo + tzMin * 60 * 1000)

\* the local calendar day, as a day number
LocalDay(date, tzMin) == LocalTime(date, tzMin).hi

getFullYear(date, tzMin) == CivilFromDays(LocalDay(date, tzMin)).y

\* 0..11, as Date.prototype.getMonth
getMonth(date, tzMin) == CivilFromDays(LocalDay(date, tzMin)).m - 1

getDate(date, tzMin) == CivilFromDays(LocalDay(date, tzMin)).d

\* 0 = Sunday .. 6 = Saturday; day number 0 (1970-01-01) is a Thursday
getDay(date, tzMin) == (LocalDay(date, tzMin) + 4) % 7

\* date.setDate(n): day n of the date's local month, time of day kept;
\* n outside the month rolls over into the neighbouring months
setDate(date, n, tzMin) ==
    LET loc == LocalTime(date, tzMin)
        c == CivilFromDays(loc.hi)
        newDay == DaysFromCivil(c.y, c.m, 1) + n - 1
    IN DateOf(Num(newDay, loc.lo - tzMin * 60 * 1000))

\* new Date(year, monthIndex, 1): local midnight of the first of the month
FirstOfMonth(year, monthIndex, tzMin) ==
    DateOf(Num(DaysFromCivil(year, monthIndex + 1, 1), 0 - tzMin * 60 * 1000))

----------------------------------------------------------------------------
(* Strings *)

DigitChars == <<"0", "1", "2", "3", "4", "5", "6", "7", "8", "9">>

IsDigit(c) == \E i \in 1..10 : DigitChars[i] = c

DigitValue(c) == (CHOOSE i \in 1..10 : DigitChars[i] = c) - 1

\* n.toString() for an integer n >= 0
RECURSIVE numToString(_)
numToString(n) ==
    IF n < 10 THEN <<DigitChars[n + 1]>>
    ELSE numToString(n \div 10) \o <<DigitChars[(n % 10) + 1]>>

\* str.replace(/pat/g, rep) for a literal pattern: every occurrence, found
\* left to right without overlap, is replaced
RECURSIVE replaceAll(_, _, _)
replaceAll(str, pat, rep) ==
    IF Len(str) < Len(pat) THEN str
    ELSE IF SubSeq(str, 1, Len(pat)) = pat
         THEN rep \o replaceAll(SubSeq(str, Len(pat) + 1, Len(str)), pat, rep)
         ELSE <<str[1]>> \o replaceAll(Tail(str), pat, rep)

\* the digits of str read as a decimal number
RECURSIVE DigitsToNum(_, _)
DigitsToNum(str, acc) ==
    IF str = <<>> THEN acc
    ELSE DigitsToNum(Tail(str), Times10Plus(acc, DigitValue(str[1])))

\* the small number formed by digits i..j of str
RECURSIVE DigitsToInt(_, _, _)
DigitsToInt(str, i, j) ==
    IF i > j THEN 0
    ELSE DigitsToInt(str, i, j - 1) * 10 + DigitValue(str[j])

AllDigits(str, i, j) == \A k \in i..j : IsDigit(str[k])

\* Number(str) for the strings explored: blank is 0, a run of decimal
\* digits is its value, anything else is NaN
StringToNumber(str) ==
    IF \A k \in 1..Len(str) : str[k] = " " THEN Zero
    ELSE IF AllDigits(str, 1, Len(str)) THEN DigitsToNum(str, Zero)
    ELSE NaN

DaysInMonth(y, m) ==
    IF m = 12 THEN 31 ELSE DaysFromCivil(y, m + 1, 1) - DaysFromCivil(y, m, 1)

\* new Date(str) for the strings explored: "YYYY-MM-DD" naming a calendar
\* day is midnight UTC of that day, anything else is an Invalid Date
ParseDate(str) ==
    IF /\ Len(str) = 10
       /\ AllDigits(str, 1, 4) /\ str[5] = "-"
       /\ AllDigits(str, 6, 7) /\ str[8] = "-"
       /\ AllDigits(str, 9, 10)
    THEN LET y == DigitsToInt(str, 1, 4)
             m == DigitsToInt(str, 6, 7)
             d == DigitsToInt(str, 9, 10)
         IN IF m \in 1..12 /\ d >= 1 /\ d <= DaysInMonth(y, m)
            THEN DateOf(Num(DaysFromCivil(y, m, d), 0))
            ELSE NaN
    ELSE NaN

\* num < 10 ? `0${num}` : num.toString()
pad2(num) == IF num < 10 THEN <<"0">> \o numToString(num) ELSE numToString(num)

\* the "YYYY-MM-DD" string of a day number (years 1000..9999)
DateString(day) ==
    LET c == CivilFromDays(day)
    IN numToString(c.y) \o <<"-">> \o pad2(c.m) \o <<"-">> \o pad2(c.d)

----------------------------------------------------------------------------
(* Weekday tables and conversion *)

\* Object.keys(DAY_MAPPINGS), in declaration order
Formats == <<"ko-short", "ko-long", "en-short", "en-short-caps", "en-long", "en-long-caps">>

DAY_MAPPINGS ==
    [f \in {Formats[k] : k \in 1..Len(Formats)} |->
        CASE f = "ko-short" ->
               <<"U+C77C", "U+C6D4", "U+D654", "U+C218", "U+BAA9", "U+AE08", "U+D1A0">>
          [] f = "ko-long" ->
               <<"U+C77C U+C694 U+C77C", "U+C6D4 U+C694 U+C77C", "U+D654 U+C694 U+C77C",
                 "U+C218 U+C694 U+C77C", "U+BAA9 U+C694 U+C77C", "U+AE08 U+C694 U+C77C",
                 "U+D1A0 U+C694 U+C77C">>
          [] f = "en-short" ->
               <<"sun", "mon", "tue", "wed", "thu", "fri", "sat">>
          [] f = "en-short-caps" ->
               <<"SUN", "MON", "TUE", "WED", "THU", "FRI", "SAT">>
          [] f = "en-long" ->
               <<"sunday", "monday", "tuesday", "wednesday", "thursday", "friday",
                 "saturday">>
          [] f = "en-long-caps" ->
               <<"SUNDAY", "MONDAY", "TUESDAY", "WEDNESDAY", "THURSDAY", "FRIDAY",
                 "SATURDAY">>]

\* null, and a non-null value
Null == <<>>
Some(v) == <<v>>

\* an indexOf that counts from 1
indexOf_OneBased(days, day) ==
    IF \E k \in 1..Len(days) : days[k] = day
    THEN CHOOSE k \in 1..Len(days) :
             days[k] = day /\ \A j \in 1..(k - 1) : days[j] # day
    ELSE -1

\* days.indexOf(day): the 0-based index of the first occurrence, or -1
indexOf(days, day) ==
    IF \E k \in 1..Len(days) : days[k] = day
    THEN (CHOOSE k \in 1..Len(days) :
              days[k] = day /\ \A j \in 1..(k - 1) : days[j] # day) - 1
    ELSE -1

\* the loop `for (const format of formats)` shared by convertDayFormat and
\* getDayIndex: the index found in the first format that holds day, or -1
RECURSIVE searchFormats(_, _)
searchFormats(formats, day) ==
    IF formats = <<>> THEN -1
    ELSE LET index == indexOf(DAY_MAPPINGS[Head(formats)], day)
         IN IF index # -1 THEN index ELSE searchFormats(Tail(formats), day)

getDayOfWeek(date, format, tzMin) == DAY_MAPPINGS[format][getDay(date, tzMin) + 1]

convertDayFormatIn(formats, day, targetFormat) ==
    LET dayIndex == searchFormats(formats, day)
    IN IF dayIndex = -1 THEN Null ELSE Some(DAY_MAPPINGS[targetFormat][dayIndex + 1])

convertDayFormat(day, targetFormat) == convertDayFormatIn(Formats, day, targetFormat)

\* getDayIndex testing `if (index)` instead of `if (index !== -1)`
getDayIndexIn_Truthy(formats, day) ==
    LET index == searchFormats(formats, day)
    IN IF index # 0 THEN Some(index) ELSE Null

getDayIndexIn(formats, day) ==
    LET index == searchFormats(formats, day)
    IN IF index # -1 THEN Some(index) ELSE Null

getDayIndex(day) == getDayIndexIn(Formats, day)

----------------------------------------------------------------------------
(* Week enumeration and nearest weekday *)

\* getWeekDays without the wrap-around of a negative difference
getWeekDays_NoWrap(date, startFromSunday, tzMin) ==
    LET currentDay == getDay(date, tzMin)
        startDay == IF startFromSunday THEN 0 ELSE 1
        offsetDays == currentDay - startDay
        currentDate == setDate(date, getDate(date, tzMin) - offsetDays, tzMin)
    IN [i \in 1..7 |-> setDate(currentDate, getDate(currentDate, tzMin) + (i - 1), tzMin)]

\* the seven dates pushed by the loop of getWeekDays
getWeekDays(date, startFromSunday, tzMin) ==
    LET currentDay == getDay(date, tzMin)
        startDay == IF startFromSunday THEN 0 ELSE 1
        diff == currentDay - startDay
        offsetDays == IF diff < 0 THEN diff + 7 ELSE diff
        currentDate == setDate(date, getDate(date, tzMin) - offsetDays, tzMin)
    IN [i \in 1..7 |-> setDate(currentDate, getDate(currentDate, tzMin) + (i - 1), tzMin)]

isSameDayOfWeek(date1, date2, tzMin) == getDay(date1, tzMin) = getDay(date2, tzMin)

\* a remainder that is never negative (the % of other languages)
JsRem_Floored(a, b) == a % b

\* a % b of JavaScript: the remainder has the sign of the dividend
JsRem(a, b) == IF a >= 0 THEN a % b ELSE 0 - ((0 - a) % b)

\* the signed number of days getNextDayOfWeek adds to the base date
daysToAdd(targetDayIndex, currentDayIndex, searchForward) ==
    IF searchForward
    THEN LET n == JsRem(targetDayIndex - currentDayIndex + 7, 7)
         IN IF n = 0 THEN 7 ELSE n
    ELSE LET n == JsRem(targetDayIndex - currentDayIndex - 7, 7)
         IN IF n = 0 THEN -7 ELSE n

getNextDayOfWeek(targetDay, baseDate, searchForward, tzMin) ==
    LET targetDayIndex == getDayIndex(targetDay)
    IN IF targetDayIndex = Null THEN Null
       ELSE LET currentDayIndex == getDay(baseDate, tzMin)
                n == daysToAdd(targetDayIndex[1], currentDayIndex, searchForward)
            IN Some(setDate(baseDate, getDate(baseDate, tzMin) + n, tzMin))

isWeekend(date, tzMin) == getDay(date, tzMin) = 0 \/ getDay(date, tzMin) = 6

isWeekday(date, tzMin) == ~isWeekend(date, tzMin)

----------------------------------------------------------------------------
(* Private helpers *)

\* subtractDays that adds the days
subtractDays_Adds(date, days, tzMin) == setDate(date, getDate(date, tzMin) + days, tzMin)

subtractDays(date, days, tzMin) == setDate(date, getDate(date, tzMin) - days, tzMin)

\* a comparison that involves an Invalid Date compares NaN and is false
isSameDay(date1, date2, tzMin) ==
    /\ ~date1.nan
    /\ ~date2.nan
    /\ getFullYear(date1, tzMin) = getFullYear(date2, tzMin)
    /\ getMonth(date1, tzMin) = getMonth(date2, tzMin)
    /\ getDate(date1, tzMin) = getDate(date2, tzMin)

fromUnixTime(timestamp) == DateOf(Times1000(timestamp))

isValidDate(date) == ~date.nan

\* formatDate replacing the one-letter tokens before the two-letter ones
formatDate_SingleFirst(date, formatStr, tzMin) ==
    LET year == getFullYear(date, tzMin)
        month == getMonth(date, tzMin) + 1
        day == getDate(date, tzMin)
        s1 == replaceAll(formatStr, <<"y", "y", "y", "y">>, numToString(year))
        s2 == replaceAll(s1, <<"M">>, numToString(month))
        s3 == replaceAll(s2, <<"M", "M">>, pad2(month))
        s4 == replaceAll(s3, <<"d">>, numToString(day))
    IN replaceAll(s4, <<"d", "d">>, pad2(day))

formatDate(date, formatStr, tzMin) ==
    LET year == getFullYear(date, tzMin)
        month == getMonth(date, tzMin) + 1
        day == getDate(date, tzMin)
        s1 == replaceAll(formatStr, <<"y", "y", "y", "y">>, numToString(year))
        s2 == replaceAll(s1, <<"M", "M">>, pad2(month))
        s3 == replaceAll(s2, <<"M">>, numToString(month))
        s4 == replaceAll(s3, <<"d", "d">>, pad2(day))
    IN replaceAll(s4, <<"d">>, numToString(day))

\* Math.floor(a / b) in place of Math.ceil
CeilDiv_Floor(a, b) == a \div b

\* Math.ceil(a / b) for b > 0
CeilDiv(a, b) == 0 - ((0 - a) \div b)

getWeekOfMonth(date, tzMin) ==
    LET firstDayOfMonth == FirstOfMonth(getFullYear(date, tzMin), getMonth(date, tzMin), tzMin)
        dayOfMonth == getDate(date, tzMin)
        firstDayOfWeek == getDay(firstDayOfMonth, tzMin)
        daysInFirstWeek == 7 - firstDayOfWeek
    IN IF dayOfMonth > daysInFirstWeek
       THEN CeilDiv(dayOfMonth - daysInFirstWeek, 7) + 1
       ELSE 1

----------------------------------------------------------------------------
(* Date-picker range *)

\* isDateDisabled without its first case (start and end on the same day)
isDateDisabled_NoSameDayCase(date, startDateStr, endDateStr, today, tzMin) ==
    LET start == IF startDateStr # <<>> THEN ParseDate(startDateStr) ELSE today
        end == IF endDateStr # <<>> THEN ParseDate(endDateStr) ELSE today
        endIsToday == isSameDay(end, today, tzMin)
    IN IF endIsToday THEN ~isSameDay(date, today, tzMin)
       ELSE \/ NumLT(date, start)
            \/ NumGT(date, end)
            \/ NumLT(date, subtractDays(today, 1, tzMin))

\* isDateDisabled whose last case forgets the end of the range
isDateDisabled_NoEndTest(date, startDateStr, endDateStr, today, tzMin) ==
    LET start == IF startDateStr # <<>> THEN ParseDate(startDateStr) ELSE today
        end == IF endDateStr # <<>> THEN ParseDate(endDateStr) ELSE today
        endIsToday == isSameDay(end, today, tzMin)
        isStartSameAsEnd == isSameDay(start, end, tzMin)
    IN IF isStartSameAsEnd THEN ~isSameDay(date, start, tzMin)
       ELSE IF endIsToday THEN ~isSameDay(date, today, tzMin)
       ELSE \/ NumLT(date, start)
            \/ NumLT(date, subtractDays(today, 1, tzMin))

isDateDisabled(date, startDateStr, endDateStr, today, tzMin) ==
    LET start == IF startDateStr # <<>> THEN ParseDate(startDateStr) ELSE today
        end == IF endDateStr # <<>> THEN ParseDate(endDateStr) ELSE today
        endIsToday == isSameDay(end, today, tzMin)
        isStartSameAsEnd == isSameDay(start, end, tzMin)
    IN IF isStartSameAsEnd THEN ~isSameDay(date, start, tzMin)
       ELSE IF endIsToday THEN ~isSameDay(date, today, tzMin)
       ELSE \/ NumLT(date, start)
            \/ NumGT(date, end)
            \/ NumLT(date, subtractDays(today, 1, tzMin))

\* getDefaultOpenMonth that looks at the end of the range first
getDefaultOpenMonth_EndFirst(startDateStr, endDateStr, today) ==
    LET start == IF startDateStr # <<>> THEN ParseDate(startDateStr) ELSE today
        end == IF endDateStr # <<>> THEN ParseDate(endDateStr) ELSE today
    IN IF NumGT(end, today) THEN end
       ELSE IF NumLT(start, today) THEN start
       ELSE today

getDefaultOpenMonth(startDateStr, endDateStr, today) ==
    LET start == IF startDateStr # <<>> THEN ParseDate(startDateStr) ELSE today
        end == IF endDateStr # <<>> THEN ParseDate(endDateStr) ELSE today
    IN IF NumLT(start, today) THEN start
       ELSE IF NumGT(end, today) THEN end
       ELSE today

getKoreanWeekOfMonth(date, tzMin) ==
    LET year == numToString(getFullYear(date, tzMin))
        month == numToString(getMonth(date, tzMin) + 1)
        week == getWeekOfMonth(date, tzMin)
    IN year \o <<"U+B144", " ">> \o month \o <<"U+C6D4", " ">>
            \o numToString(week) \o <<"U+C8FC", "U+CC28">>

----------------------------------------------------------------------------
(* Safe formatting *)

\* JavaScript values handed to formatSafeDate
Undefined == [type |-> "undefined", num |-> NaN, str |-> <<>>]
NumberVal(n) == [type |-> "number", num |-> n, str |-> <<>>]
StringVal(str) == [type |-> "string", num |-> NaN, str |-> str]
SymbolVal == [type |-> "symbol", num |-> NaN, str |-> <<>>]

\* !v is false
Truthy(v) ==
    CASE v.type = "undefined" -> FALSE
      [] v.type = "number" -> ~v.num.nan /\ v.num # Zero
      [] v.type = "string" -> v.str # <<>>
      [] v.type = "symbol" -> TRUE

\* Number(v); a symbol makes it throw a TypeError
NumberThrows(v) == v.type = "symbol"

Number(v) ==
    CASE v.type = "undefined" -> NaN
      [] v.type = "number" -> v.num
      [] v.type = "string" -> StringToNumber(v.str)
      [] v.type = "symbol" -> NaN

\* the try block comparing `timestamp >= 1000000000000`
formatSafeDateTry_AtLeast(dateValue, formatString, tzMin) ==
    IF dateValue.type # "number" /\ NumberThrows(dateValue)
    THEN [threw |-> TRUE, ret |-> <<>>]
    ELSE LET numeric == dateValue.type = "number" \/ ~Number(dateValue).nan
             timestamp == Number(dateValue)
             date == IF numeric
                     THEN IF ~NumLT(timestamp, MsThreshold)
                          THEN DateOf(timestamp)
                          ELSE fromUnixTime(timestamp)
                     ELSE ParseDate(dateValue.str)
         IN IF ~isValidDate(date) THEN [threw |-> FALSE, ret |-> <<"-">>]
            ELSE IF formatString.type # "string" THEN [threw |-> TRUE, ret |-> <<>>]
            ELSE [threw |-> FALSE, ret |-> formatDate(date, formatString.str, tzMin)]

\* the body of the try block: threw tells whether an exception left it,
\* ret is the value it returned otherwise
formatSafeDateTry(dateValue, formatString, tzMin) ==
    IF dateValue.type # "number" /\ NumberThrows(dateValue)
    THEN [threw |-> TRUE, ret |-> <<>>]
    ELSE LET numeric == dateValue.type = "number" \/ ~Number(dateValue).nan
             timestamp == Number(dateValue)
             date == IF numeric
                     THEN IF NumGT(timestamp, MsThreshold)
                          THEN DateOf(timestamp)
                          ELSE fromUnixTime(timestamp)
                     ELSE ParseDate(dateValue.str)
         IN IF ~isValidDate(date) THEN [threw |-> FALSE, ret |-> <<"-">>]
            ELSE IF formatString.type # "string" THEN [threw |-> TRUE, ret |-> <<>>]
            ELSE [threw |-> FALSE, ret |-> formatDate(date, formatString.str, tzMin)]

\* formatSafeDate without its catch clause
formatSafeDate_NoCatch(dateValue, formatString, tzMin) ==
    IF ~Truthy(dateValue) THEN [ret |-> <<"-">>, raised |-> FALSE, logged |-> FALSE]
    ELSE LET body == formatSafeDateTry(dateValue, formatString, tzMin)
         IN IF body.threw
            THEN [ret |-> <<>>, raised |-> TRUE, logged |-> FALSE]
            ELSE [ret |-> body.ret, raised |-> FALSE, logged |-> FALSE]

\* ret: the returned string; raised: an exception reached the caller;
\* logged: console.error was called
formatSafeDate(dateValue, formatString, tzMin) ==
    IF ~Truthy(dateValue) THEN [ret |-> <<"-">>, raised |-> FALSE, logged |-> FALSE]
    ELSE LET body == formatSafeDateTry(dateValue, formatString, tzMin)
         IN IF body.threw
            THEN [ret |-> <<"-">>, raised |-> FALSE, logged |-> TRUE]
            ELSE [ret |-> body.ret, raised |-> FALSE, logged |-> FALSE]

----------------------------------------------------------------------------
(* Epoch conversions *)

\* Math.floor(date.getTime() / 1000); NaN for an Invalid Date
dateToUnixEpoch(date) == FloorDiv1000(date)

unixEpochToMilliseconds(epochSeconds) == Times1000(epochSeconds)

unixEpochToDate(epochSeconds) == DateOf(Times1000(epochSeconds))

epochMillisecondsToDate(epochMilliseconds) == DateOf(epochMilliseconds)

\* only yyyy, MM and dd are replaced (for a valid date)
formatEpochMilliseconds(epochMilliseconds, format, tzMin) ==
    LET date == DateOf(epochMilliseconds)
        year == getFullYear(date, tzMin)
        month == pad2(getMonth(date, tzMin) + 1)
        day == pad2(getDate(date, tzMin))
        s1 == replaceAll(format, <<"y", "y", "y", "y">>, numToString(year))
        s2 == replaceAll(s1, <<"M", "M">>, month)
    IN replaceAll(s2, <<"d", "d">>, day)

----------------------------------------------------------------------------
(* Inputs *)

\* host offsets from UTC in minutes: New York (standard time), UTC, Seoul
TimeZones == {-300, 0, 540}

\* 2025-04-30, a Wednesday whose week runs into May
BaseDay == DaysFromCivil(2025, 4, 30)

\* times of day, in ms: 00:00 UTC (the day before in New York) and 20:00 UTC
\* (the day after in Seoul)
TimesOfDay == {0, 20 * 60 * 60 * 1000}

Instants(days) == {Num(d, t) : d \in days, t \in TimesOfDay}

PickerDays == (BaseDay - DaySpan)..(BaseDay + DaySpan)

\* "" and the "YYYY-MM-DD" strings of the picker days
DateStrings == {<<>>} \cup {DateString(d) : d \in PickerDays}

WeekDaysRange == (BaseDay - WeekSpan)..(BaseDay + WeekSpan)

MonthDays == DaysFromCivil(2025, 1, 1)..(DaysFromCivil(2025 + (MonthSpan \div 12), 1 + (MonthSpan % 12), 1) - 1)

FormatSet == {Formats[k] : k \in 1..Len(Formats)}

TableEntries == {DAY_MAPPINGS[f][k] : f \in FormatSet, k \in 1..7}

\* texts that are in no table
OtherTexts == {"xyz", "Monday", "Mon", "", "mon ", "U+C6D4 U+C694"}

DayTexts == TableEntries \cup OtherTexts

\* epoch samples: 10^9, 1714022400 and 10^12
EpochSamples ==
    {Num(0, 1000000000 + k) : k \in (0 - EpochSpan)..EpochSpan}
        \cup {Num(0, 1714022400 + k * 40000) : k \in (0 - EpochSpan)..EpochSpan}
        \cup {Num(11574, 6400000 + k) : k \in (0 - EpochSpan)..EpochSpan}

\* a number beyond the range of Date, and one whose thousandfold is
BeyondDate == {Num(MaxDateDays, 1), Num(MaxDateDays \div 1000, 1)}

NumberValues ==
    {NumberVal(n) : n \in EpochSamples \cup {Times1000(e) : e \in EpochSamples}}
        \cup {NumberVal(n) : n \in BeyondDate \cup {Zero, NaN, Num(-1, 0), Num(0, 1)}}

StringValues ==
    {StringVal(str) : str \in
        { <<>>,
          <<" ">>,
          <<"0">>,
          <<"a", "b", "c">>,
          <<"2", "0", "2", "5", "-", "0", "4", "-", "2", "4">>,
          <<"2", "0", "2", "5", "-", "1", "3", "-", "0", "1">>,
          <<"1", "7", "1", "4", "0", "2", "2", "4", "0", "0">>,
          <<"1", "7", "1", "4", "0", "2", "2", "4", "0", "0", "0", "0", "0">>,
          <<"1", "0", "0", "0", "0", "0", "0", "0", "0", "0", "0", "0", "0">>,
          <<"1", "0", "0", "0", "0", "0", "0", "0", "0", "0", "0", "0", "1">> }}

DateValues == {Undefined, SymbolVal} \cup NumberValues \cup StringValues

\* 'yyyy-MM-dd', 'yyyy/MM/dd', 'yyyy-M-d', 'yyyy<nyeon> MM<wol> dd<il>', and a
\* missing format string
FormatStrings ==
    { StringVal(<<"y", "y", "y", "y", "-", "M", "M", "-", "d", "d">>),
      StringVal(<<"y", "y", "y", "y", "/", "M", "M", "/", "d", "d">>),
      StringVal(<<"y", "y", "y", "y", "-", "M", "-", "d">>),
      StringVal(<<"y", "y", "y", "y", "U+B144", " ", "M", "M", "U+C6D4", " ", "d", "d", "U+C77C">>),
      Undefined }

\* the tokens of formatDate and separators without the letters M and d
PatternPieces ==
    { <<"y", "y", "y", "y">>, <<"M", "M">>, <<"M">>, <<"d", "d">>, <<"d">>,
      <<"-">>, <<"y">> }

\* the strings made of n pieces
RECURSIVE PiecesOf(_)
PiecesOf(n) ==
    IF n = 0 THEN {<<>>}
    ELSE {piece \o rest : piece \in PatternPieces, rest \in PiecesOf(n - 1)}

\* every string of at most PatternLen pieces, and the patterns 'yyyy-MM-dd',
\* 'yyyy-M-d' and 'yyyy/MM/dd'
Patterns ==
    UNION {PiecesOf(n) : n \in 0..PatternLen}
        \cup { <<"y", "y", "y", "y", "-", "M", "M", "-", "d", "d">>,
               <<"y", "y", "y", "y", "-", "M", "-", "d">>,
               <<"y", "y", "y", "y", "/", "M", "M", "/", "d", "d">> }

\* dates with one- and two-digit months and days: 2025-04-08 00:00 UTC,
\* 2025-10-05 12:00 UTC, 2025-11-23 20:00 UTC and 2025-12-31 20:00 UTC
PatternDates ==
    { Num(DaysFromCivil(2025, 4, 8), 0),
      Num(DaysFromCivil(2025, 10, 5), 12 * 60 * 60 * 1000),
      Num(DaysFromCivil(2025, 11, 23), 20 * 60 * 60 * 1000),
      Num(DaysFromCivil(2025, 12, 31), 20 * 60 * 60 * 1000) }

\* whole seconds: around 0, 1745222400 and 1745452800, a negative value, and
\* the ends of the range of Date (8640000000000 s) with their neighbours
EpochSeconds ==
    {Num(0, base + k) : base \in {0, 1745222400, 1745452800, -123456789},
                        k \in (0 - EpochSpan)..EpochSpan}
        \cup {Num(MaxDateDays \div 1000, k) : k \in {-1, 0, 1}}
        \cup {Num(0 - (MaxDateDays \div 1000), k) : k \in {-1, 0, 1}}

\* instants in ms: around the epoch, the day before it, 2025-04-21T08:00:00Z
\* and 2025-04-24T00:00:00Z
EpochMillis ==
    {Num(day, t + k) : day \in {-1, 0, DaysFromCivil(2025, 4, 21), DaysFromCivil(2025, 4, 24)},
                       t \in {0, 999, 8 * 60 * 60 * 1000},
                       k \in (0 - EpochSpan)..EpochSpan}

\* the default 'yyyy-MM-dd', 'yyyy<nyeon> MM<wol> dd<il>' and 'yyyy-M-d'
EpochFormats ==
    { <<"y", "y", "y", "y", "-", "M", "M", "-", "d", "d">>,
      <<"y", "y", "y", "y", "U+B144", " ", "M", "M", "U+C6D4", " ", "d", "d", "U+C77C">>,
      <<"y", "y", "y", "y", "-", "M", "-", "d">> }

----------------------------------------------------------------------------
(* State machine: the caller is idle, calls one operation, reads the value *)
(* it returned and comes back to idle.                                      *)

VARIABLES
    tz,        \* the host's offset from UTC in minutes
    op,        \* "idle", or the operation that has just returned
    args,      \* its arguments
    res,       \* the value it returned
    console    \* number of console.error calls so far

vars == <<tz, op, args, res, console>>

Init ==
    /\ tz \in TimeZones
    /\ op = "idle"
    /\ args = <<>>
    /\ res = <<>>
    /\ console = 0

CallGetDayIndex ==
    \E day \in DayTexts :
        /\ op = "idle"
        /\ op' = "getDayIndex"
        /\ args' = [day |-> day]
        /\ res' = getDayIndex(day)
        /\ UNCHANGED <<tz, console>>

CallConvertDayFormat ==
    \E day \in DayTexts, targetFormat \in FormatSet :
        /\ op = "idle"
        /\ op' = "convertDayFormat"
        /\ args' = [day |-> day, targetFormat |-> targetFormat]
        /\ res' = convertDayFormat(day, targetFormat)
        /\ UNCHANGED <<tz, console>>

CallGetWeekDays ==
    \E date \in Instants(WeekDaysRange), startFromSunday \in BOOLEAN :
        /\ op = "idle"
        /\ op' = "getWeekDays"
        /\ args' = [date |-> date, startFromSunday |-> startFromSunday]
        /\ res' = getWeekDays(date, startFromSunday, tz)
        /\ UNCHANGED <<tz, console>>

CallGetNextDayOfWeek ==
    \E targetDay \in DayTexts, baseDate \in Instants(WeekDaysRange),
       searchForward \in BOOLEAN :
        /\ op = "idle"
        /\ op' = "getNextDayOfWeek"
        /\ args' = [targetDay |-> targetDay, baseDate |-> baseDate,
                    searchForward |-> searchForward]
        /\ res' = getNextDayOfWeek(targetDay, baseDate, searchForward, tz)
        /\ UNCHANGED <<tz, console>>

CallGetWeekOfMonth ==
    \E date \in Instants(MonthDays) :
        /\ op = "idle"
        /\ op' = "getWeekOfMonth"
        /\ args' = [date |-> date]
        /\ res' = getWeekOfMonth(date, tz)
        /\ UNCHANGED <<tz, console>>

CallGetKoreanWeekOfMonth ==
    \E date \in Instants(MonthDays) :
        /\ op = "idle"
        /\ op' = "getKoreanWeekOfMonth"
        /\ args' = [date |-> date]
        /\ res' = getKoreanWeekOfMonth(date, tz)
        /\ UNCHANGED <<tz, console>>

CallIsDateDisabled ==
    \E date \in Instants(PickerDays), startDateStr \in DateStrings,
       endDateStr \in DateStrings, today \in Instants(PickerDays) :
        /\ op = "idle"
        /\ op' = "isDateDisabled"
        /\ args' = [date |-> date, startDateStr |-> startDateStr,
                    endDateStr |-> endDateStr, today |-> today]
        /\ res' = isDateDisabled(date, startDateStr, endDateStr, today, tz)
        /\ UNCHANGED <<tz, console>>

CallGetDefaultOpenMonth ==
    \E startDateStr \in DateStrings, endDateStr \in DateStrings,
       today \in Instants(PickerDays) :
        /\ op = "idle"
        /\ op' = "getDefaultOpenMonth"
        /\ args' = [startDateStr |-> startDateStr, endDateStr |-> endDateStr,
                    today |-> today]
        /\ res' = getDefaultOpenMonth(startDateStr, endDateStr, today)
        /\ UNCHANGED <<tz, console>>

CallFormatSafeDate ==
    \E dateValue \in DateValues, formatString \in FormatStrings :
        LET r == formatSafeDate(dateValue, formatString, tz)
        IN /\ op = "idle"
           /\ r.logged => console < MaxLog
           /\ op' = "formatSafeDate"
           /\ args' = [dateValue |-> dateValue, formatString |-> formatString]
           /\ res' = r
           /\ console' = IF r.logged THEN console + 1 ELSE console
           /\ UNCHANGED tz

CallFormatDate ==
    \E date \in PatternDates, formatStr \in Patterns :
        /\ op = "idle"
        /\ op' = "formatDate"
        /\ args' = [date |-> date, formatStr |-> formatStr]
        /\ res' = formatDate(date, formatStr, tz)
        /\ UNCHANGED <<tz, console>>

CallDateToUnixEpoch ==
    \E date \in EpochMillis :
        /\ op = "idle"
        /\ op' = "dateToUnixEpoch"
        /\ args' = [date |-> date]
        /\ res' = dateToUnixEpoch(date)
        /\ UNCHANGED <<tz, console>>

CallUnixEpochToMilliseconds ==
    \E epochSeconds \in EpochSeconds :
        /\ op = "idle"
        /\ op' = "unixEpochToMilliseconds"
        /\ args' = [epochSeconds |-> epochSeconds]
        /\ res' = unixEpochToMilliseconds(epochSeconds)
        /\ UNCHANGED <<tz, console>>

CallUnixEpochToDate ==
    \E epochSeconds \in EpochSeconds :
        /\ op = "idle"
        /\ op' = "unixEpochToDate"
        /\ args' = [epochSeconds |-> epochSeconds]
        /\ res' = unixEpochToDate(epochSeconds)
        /\ UNCHANGED <<tz, console>>

CallEpochMillisecondsToDate ==
    \E epochMilliseconds \in EpochMillis \cup {Times1000(e) : e \in EpochSeconds} :
        /\ op = "idle"
        /\ op' = "epochMillisecondsToDate"
        /\ args' = [epochMilliseconds |-> epochMilliseconds]
        /\ res' = epochMillisecondsToDate(epochMilliseconds)
        /\ UNCHANGED <<tz, console>>

CallFormatEpochMilliseconds ==
    \E epochMilliseconds \in EpochMillis, format \in EpochFormats :
        /\ op = "idle"
        /\ op' = "formatEpochMilliseconds"
        /\ args' = [epochMilliseconds |-> epochMilliseconds, format |-> format]
        /\ res' = formatEpochMilliseconds(epochMilliseconds, format, tz)
        /\ UNCHANGED <<tz, console>>

\* the caller has consumed the returned value
Return ==
    /\ op # "idle"
    /\ op' = "idle"
    /\ args' = <<>>
    /\ res' = <<>>
    /\ UNCHANGED <<tz, console>>

Next ==
    \/ CallGetDayIndex
    \/ CallConvertDayFormat
    \/ CallGetWeekDays
    \/ CallGetNextDayOfWeek
    \/ CallGetWeekOfMonth
    \/ CallGetKoreanWeekOfMonth
    \/ CallIsDateDisabled
    \/ CallGetDefaultOpenMonth
    \/ CallFormatSafeDate
    \/ CallFormatDate
    \/ CallDateToUnixEpoch
    \/ CallUnixEpochToMilliseconds
    \/ CallUnixEpochToDate
    \/ CallEpochMillisecondsToDate
    \/ CallFormatEpochMilliseconds
    \/ Return

Spec == Init /\ [][Next]_vars

\* the weekday calls alone
NextWeekday ==
    \/ CallGetDayIndex
    \/ CallConvertDayFormat
    \/ CallGetWeekDays
    \/ CallGetNextDayOfWeek
    \/ Return

SpecWeekday == Init /\ [][NextWeekday]_vars

\* the week-of-month calls alone
NextMonth ==
    \/ CallGetWeekOfMonth
    \/ CallGetKoreanWeekOfMonth
    \/ Return

SpecMonth == Init /\ [][NextMonth]_vars

\* the date-picker calls alone
NextPicker ==
    \/ CallIsDateDisabled
    \/ CallGetDefaultOpenMonth
    \/ Return

SpecPicker == Init /\ [][NextPicker]_vars

\* the formatting calls alone
NextFormat ==
    \/ CallFormatSafeDate
    \/ Return

SpecFormat == Init /\ [][NextFormat]_vars

\* the pattern formatter alone
NextPattern ==
    \/ CallFormatDate
    \/ Return

SpecPattern == Init /\ [][NextPattern]_vars

\* the epoch conversions alone
NextEpoch ==
    \/ CallDateToUnixEpoch
    \/ CallUnixEpochToMilliseconds
    \/ CallUnixEpochToDate
    \/ CallEpochMillisecondsToDate
    \/ CallFormatEpochMilliseconds
    \/ Return

SpecEpoch == Init /\ [][NextEpoch]_vars

----------------------------------------------------------------------------
(* Properties of the date-picker range, under SpecPicker *)

\* C1: when the start and the end of the range are the same string s, a date
\* is selectable (isDateDisabled is false) exactly when it falls on the local
\* calendar day of s (of today when s is empty); for a non-empty s the answer
\* is the same for every reference day, also when s is today's calendar day.
C1_SameStartEnd ==
    (op = "isDateDisabled" /\ args.startDateStr = args.endDateStr) =>
        LET s == IF args.startDateStr # <<>> THEN ParseDate(args.startDateStr)
                 ELSE args.today
        IN /\ (res = FALSE) <=> (LocalDay(args.date, tz) = LocalDay(s, tz))
           /\ args.startDateStr # <<>> =>
                \A t \in Instants(PickerDays) :
                    isDateDisabled(args.date, args.startDateStr, args.endDateStr, t, tz) = res

\* C1 witness: start = end = today's calendar day and the date on that day
\* was found selectable
C1_Witness ==
    /\ op = "isDateDisabled"
    /\ args.startDateStr # <<>>
    /\ args.startDateStr = args.endDateStr
    /\ LocalDay(ParseDate(args.startDateStr), tz) = LocalDay(args.today, tz)
    /\ LocalDay(args.date, tz) = LocalDay(args.today, tz)
    /\ res = FALSE

\* C2: with an empty side replaced by today and start, end on different
\* calendar days: if end is on today's calendar day, exactly the dates on
\* today's calendar day are selectable; otherwise a date is selectable exactly
\* when start <= date <= end and date >= today - 1 day (compared as instants).
C2_RangeCases ==
    (op = "isDateDisabled") =>
        LET start == IF args.startDateStr # <<>> THEN ParseDate(args.startDateStr)
                     ELSE args.today
            end == IF args.endDateStr # <<>> THEN ParseDate(args.endDateStr)
                   ELSE args.today
            dayBefore == Num(args.today.hi - 1, args.today.lo)
        IN LocalDay(start, tz) # LocalDay(end, tz) =>
             IF LocalDay(end, tz) = LocalDay(args.today, tz)
             THEN (res = FALSE) <=> (LocalDay(args.date, tz) = LocalDay(args.today, tz))
             ELSE (res = FALSE) <=>
                    /\ ~NumLT(args.date, start)
                    /\ ~NumLT(end, args.date)
                    /\ ~NumLT(args.date, dayBefore)

\* C2 witness: a date inside the range is refused only because it is more
\* than one day before today
C2_Witness ==
    /\ op = "isDateDisabled"
    /\ args.startDateStr # <<>>
    /\ args.endDateStr # <<>>
    /\ LocalDay(ParseDate(args.endDateStr), tz) # LocalDay(args.today, tz)
    /\ NumLT(ParseDate(args.startDateStr), args.date)
    /\ NumLT(args.date, ParseDate(args.endDateStr))
    /\ NumLT(args.date, Num(args.today.hi - 1, args.today.lo))
    /\ res = TRUE

\* C3: getDefaultOpenMonth returns start when start < today, otherwise end
\* when end > today, otherwise today (an empty side being today); start wins
\* when both hold, and two empty sides give today.
C3_DefaultOpenMonth ==
    (op = "getDefaultOpenMonth") =>
        LET start == IF args.startDateStr # <<>> THEN ParseDate(args.startDateStr)
                     ELSE args.today
            end == IF args.endDateStr # <<>> THEN ParseDate(args.endDateStr)
                   ELSE args.today
            before(a, b) == a.hi < b.hi \/ (a.hi = b.hi /\ a.lo < b.lo)
        IN /\ before(start, args.today) => res = start
           /\ (~before(start, args.today) /\ before(args.today, end)) => res = end
           /\ (~before(start, args.today) /\ ~before(args.today, end)) => res = args.today
           /\ (args.startDateStr = <<>> /\ args.endDateStr = <<>>) => res = args.today

\* C3 witness: start < today < end and start was returned
C3_Witness ==
    /\ op = "getDefaultOpenMonth"
    /\ args.startDateStr # <<>>
    /\ args.endDateStr # <<>>
    /\ NumLT(ParseDate(args.startDateStr), args.today)
    /\ NumLT(args.today, ParseDate(args.endDateStr))
    /\ res = ParseDate(args.startDateStr)
    /\ res # ParseDate(args.endDateStr)

----------------------------------------------------------------------------
(* Properties of the weekday calls, under SpecWeekday *)

\* C4: for a weekday name of the tables, getNextDayOfWeek returns a date on
\* the target weekday whose offset from the base date is 1..7 days when
\* searching forward and -7..-1 days when searching backward; it is never the
\* base date, and the offset is exactly +7 / -7 when the base date already
\* falls on the target weekday.
C4_NextDayOfWeek ==
    (op = "getNextDayOfWeek" /\ args.targetDay \in TableEntries) =>
        LET target == CHOOSE i \in 0..6 :
                          \E f \in FormatSet : DAY_MAPPINGS[f][i + 1] = args.targetDay
            base == args.baseDate
        IN /\ res # Null
           /\ LET offset == LocalDay(res[1], tz) - LocalDay(base, tz)
              IN /\ (LocalDay(res[1], tz) + 4) % 7 = target
                 /\ res[1] = Num(base.hi + offset, base.lo)
                 /\ res[1] # base
                 /\ args.searchForward => offset \in 1..7
                 /\ ~args.searchForward => offset \in (-7)..(-1)
                 /\ (LocalDay(base, tz) + 4) % 7 = target =>
                        offset = IF args.searchForward THEN 7 ELSE -7

\* C4 witness: a backward search from a date that is already on the target
\* weekday returned the date one week earlier
C4_Witness ==
    /\ op = "getNextDayOfWeek"
    /\ ~args.searchForward
    /\ res # Null
    /\ getDayIndex(args.targetDay) = Some(getDay(args.baseDate, tz))
    /\ res[1] = Num(args.baseDate.hi - 7, args.baseDate.lo)

\* C6: getWeekDays returns 7 dates on consecutive calendar days in ascending
\* order; the first is a Sunday (startFromSunday) or a Monday (otherwise) and
\* lies (weekday(d) - startIndex) mod 7 days before d, so d's day is one of the
\* seven, also when the week crosses a month boundary.
C6_WeekDays ==
    (op = "getWeekDays") =>
        LET startIndex == IF args.startFromSunday THEN 0 ELSE 1
            day(k) == LocalDay(res[k], tz)
            weekday == (LocalDay(args.date, tz) + 4) % 7
        IN /\ Len(res) = 7
           /\ \A k \in 1..6 : day(k + 1) = day(k) + 1
           /\ \A k \in 1..6 : NumLT(res[k], res[k + 1])
           /\ (day(1) + 4) % 7 = startIndex
           /\ day(1) = LocalDay(args.date, tz) - ((weekday - startIndex) % 7)
           /\ \E k \in 1..7 : day(k) = LocalDay(args.date, tz)

\* C6 witness: a Monday-first week of a Sunday that begins in April and ends
\* in May
C6_Witness ==
    /\ op = "getWeekDays"
    /\ ~args.startFromSunday
    /\ getDay(args.date, tz) = 0
    /\ getMonth(res[1], tz) = 3
    /\ getMonth(res[7], tz) = 4
    /\ LocalDay(res[7], tz) = LocalDay(args.date, tz)

\* C7: the string at index i of table s resolves to i with getDayIndex and
\* converts to the string at index i of table t with convertDayFormat; the six
\* tables are pairwise disjoint with 7 distinct strings each, and the result
\* is the same for every order in which the tables are searched.
C7_RoundTrip ==
    LET Orders == {[k \in 1..Len(Formats) |-> p[Formats[k]]] : p \in Permutations(FormatSet)}
        inTable(day, f, i) == DAY_MAPPINGS[f][i + 1] = day
    IN /\ (op = "getDayIndex" /\ args.day \in TableEntries) =>
            \A f \in FormatSet, i \in 0..6 :
                inTable(args.day, f, i) =>
                    /\ res = Some(i)
                    /\ \A o \in Orders : getDayIndexIn(o, args.day) = Some(i)
       /\ (op = "convertDayFormat" /\ args.day \in TableEntries) =>
            \A f \in FormatSet, i \in 0..6 :
                inTable(args.day, f, i) =>
                    /\ res = Some(DAY_MAPPINGS[args.targetFormat][i + 1])
                    /\ \A o \in Orders :
                          convertDayFormatIn(o, args.day, args.targetFormat) = res
       /\ op \in {"getDayIndex", "convertDayFormat"} =>
            /\ \A f \in FormatSet : Cardinality({DAY_MAPPINGS[f][k] : k \in 1..7}) = 7
            /\ Cardinality(TableEntries) = 7 * Cardinality(FormatSet)

\* C7 witness: a Korean long name was converted to the upper-case English
\* short name of the same index
C7_Witness ==
    /\ op = "convertDayFormat"
    /\ args.day = DAY_MAPPINGS["ko-long"][7]
    /\ args.targetFormat = "en-short-caps"
    /\ res = Some("SAT")

----------------------------------------------------------------------------
(* Properties of the week-of-month calls, under SpecMonth *)

\* C5: getWeekOfMonth is 1 on the 1st; from a day to the next day of the same
\* month it grows by exactly 1 when the next day is a Sunday and is unchanged
\* otherwise; with f the weekday of the 1st it is 1 for the days 1..(7 - f) and
\* ceil((day - (7 - f)) / 7) + 1 afterwards.  new Date('2025-04-24') is in
\* week 4 and getKoreanWeekOfMonth renders it "2025<nyeon> 4<wol> 4<ju><cha>".
C5_WeekOfMonth ==
    /\ (op = "getWeekOfMonth") =>
        LET today == LocalDay(args.date, tz)
            c == CivilFromDays(today)
            next == Num(args.date.hi + 1, args.date.lo)
            f == (DaysFromCivil(c.y, c.m, 1) + 4) % 7
            ceil7(n) == (n + 6) \div 7
        IN /\ c.d = 1 => res = 1
           /\ res >= 1
           /\ CivilFromDays(today + 1).m = c.m =>
                getWeekOfMonth(next, tz) =
                    res + (IF (today + 1 + 4) % 7 = 0 THEN 1 ELSE 0)
           /\ res = IF c.d <= 7 - f THEN 1 ELSE ceil7(c.d - (7 - f)) + 1
           /\ args.date = Num(DaysFromCivil(2025, 4, 24), 0) => res = 4
    /\ (op = "getKoreanWeekOfMonth" /\ args.date = Num(DaysFromCivil(2025, 4, 24), 0)) =>
        res = <<"2", "0", "2", "5", "U+B144", " ", "4", "U+C6D4", " ", "4", "U+C8FC", "U+CC28">>

\* C5 witness: the week number of a Saturday that is not in the first week
\* was computed, the week number growing on the following Sunday
C5_Witness ==
    /\ op = "getWeekOfMonth"
    /\ getDay(args.date, tz) = 6
    /\ res = 3
    /\ getWeekOfMonth(Num(args.date.hi + 1, args.date.lo), tz) = 4

----------------------------------------------------------------------------
(* Properties of safe formatting, under SpecFormat *)

\* C9: a numeric value v (a number, or a string that parses fully as a
\* number) is read as epoch milliseconds when v > 1000000000000 and as epoch
\* seconds otherwise, 1000000000000 itself being read as seconds; hence for
\* whole seconds s with s <= 10^12 < 1000 * s, formatSafeDate(s, p) is
\* formatSafeDate(1000 * s, p) for every pattern p.
C9_EpochThreshold ==
    (/\ op = "formatSafeDate"
     /\ args.dateValue.type \in {"number", "string"}
     /\ Truthy(args.dateValue)
     /\ ~Number(args.dateValue).nan
     /\ args.formatString.type = "string") =>
        LET v == Number(args.dateValue)
            p == args.formatString
            tenTo12 == Num(11574, 6400000)
            above == v.hi > tenTo12.hi \/ (v.hi = tenTo12.hi /\ v.lo > tenTo12.lo)
            ms == IF above THEN v ELSE Times1000(v)
            shown == IF DateOf(ms).nan THEN <<"-">> ELSE formatDate(ms, p.str, tz)
            ms1000 == Times1000(v)
            above1000 == ms1000.hi > tenTo12.hi
                            \/ (ms1000.hi = tenTo12.hi /\ ms1000.lo > tenTo12.lo)
        IN /\ res.ret = shown
           /\ v = tenTo12 => res.ret = formatDate(Times1000(tenTo12), p.str, tz)
           /\ (~above /\ above1000) =>
                res.ret = formatSafeDate(NumberVal(ms1000), p, tz).ret

\* C9 witness: 1000000000000 was read as seconds, the date it gives being in
\* the year 33658
C9_Witness ==
    /\ op = "formatSafeDate"
    /\ args.dateValue = NumberVal(Num(11574, 6400000))
    /\ args.formatString.type = "string"
    /\ SubSeq(res.ret, 1, 5) = <<"3", "3", "6", "5", "8">>
    /\ res.ret = formatSafeDate(NumberVal(Times1000(Num(11574, 6400000))), args.formatString, tz).ret

\* C10: formatSafeDate never raises; it returns "-" for an absent or falsy
\* value (undefined, '', 0), for a value whose date is invalid and for any
\* exception thrown while parsing or formatting; otherwise it returns the
\* formatted date, and what is logged does not change the returned value.
C10_NeverRaises ==
    (op = "formatSafeDate") =>
        LET v == args.dateValue
            falsy == \/ v.type = "undefined"
                     \/ v.type = "string" /\ Len(v.str) = 0
                     \/ v.type = "number" /\ (v.num.nan \/ (v.num.hi = 0 /\ v.num.lo = 0))
            fails == v.type = "symbol" \/ args.formatString.type # "string"
            numeric == v.type = "number" \/ (v.type = "string" /\ ~StringToNumber(v.str).nan)
            n == IF v.type = "number" THEN v.num ELSE StringToNumber(v.str)
            date == IF numeric
                    THEN IF NumGT(n, MsThreshold) THEN DateOf(n) ELSE DateOf(Times1000(n))
                    ELSE ParseDate(v.str)
        IN /\ ~res.raised
           /\ falsy => (res.ret = <<"-">> /\ ~res.logged)
           /\ (~falsy /\ v.type # "symbol" /\ date.nan) => res.ret = <<"-">>
           /\ (~falsy /\ fails) => res.ret = <<"-">>
           /\ res.logged => (res.ret = <<"-">> /\ console >= 1)
           /\ (~falsy /\ ~fails /\ ~date.nan) =>
                /\ res.ret = formatDate(date, args.formatString.str, tz)
                /\ res.ret # <<"-">>
                /\ ~res.logged

\* C10 witness: a symbol made the parsing throw; "-" was returned and the
\* failure was logged
C10_Witness ==
    /\ op = "formatSafeDate"
    /\ args.dateValue = SymbolVal
    /\ res.ret = <<"-">>
    /\ res.logged
    /\ ~res.raised
    /\ console = 1

----------------------------------------------------------------------------
(* Properties of the pattern formatter, under SpecPattern *)

\* C11: for a pattern made of the tokens yyyy, MM, M, dd, d and of separators
\* without the letters M and d, formatDate is the substitution token by token
\* (the pattern being read from the left, the longest token first): yyyy is
\* the 4-digit year, MM and dd the zero-padded month and day, M and d the
\* unpadded ones, at every occurrence; MM and dd never come out as two copies
\* of the unpadded value.  2025-04-08 gives "2025-04-08" with 'yyyy-MM-dd' and
\* "2025-4-8" with 'yyyy-M-d'.
C11_TokenSubstitution ==
    (op = "formatDate") =>
        LET c == CivilFromDays(LocalDay(args.date, tz))
            two(n) == <<DigitChars[(n \div 10) + 1], DigitChars[(n % 10) + 1]>>
            plain(n) == IF n < 10 THEN <<DigitChars[n + 1]>> ELSE two(n)
            year == <<DigitChars[(c.y \div 1000) + 1]>> \o <<DigitChars[((c.y \div 100) % 10) + 1]>>
                        \o two(c.y % 100)
            starts(str, i, tok) ==
                i + Len(tok) - 1 <= Len(str) /\ SubSeq(str, i, i + Len(tok) - 1) = tok
            RECURSIVE subst(_, _)
            subst(str, i) ==
                IF i > Len(str) THEN <<>>
                ELSE IF starts(str, i, <<"y", "y", "y", "y">>) THEN year \o subst(str, i + 4)
                ELSE IF starts(str, i, <<"M", "M">>) THEN two(c.m) \o subst(str, i + 2)
                ELSE IF starts(str, i, <<"M">>) THEN plain(c.m) \o subst(str, i + 1)
                ELSE IF starts(str, i, <<"d", "d">>) THEN two(c.d) \o subst(str, i + 2)
                ELSE IF starts(str, i, <<"d">>) THEN plain(c.d) \o subst(str, i + 1)
                ELSE <<str[i]>> \o subst(str, i + 1)
        IN /\ res = subst(args.formatStr, 1)
           /\ (args.formatStr = <<"M", "M">> /\ c.m < 10) => res # plain(c.m) \o plain(c.m)
           /\ (args.formatStr = <<"d", "d">> /\ c.d < 10) => res # plain(c.d) \o plain(c.d)
           /\ (c.y = 2025 /\ c.m = 4 /\ c.d = 8) =>
                /\ args.formatStr = <<"y", "y", "y", "y", "-", "M", "M", "-", "d", "d">> =>
                        res = <<"2", "0", "2", "5", "-", "0", "4", "-", "0", "8">>
                /\ args.formatStr = <<"y", "y", "y", "y", "-", "M", "-", "d">> =>
                        res = <<"2", "0", "2", "5", "-", "4", "-", "8">>

\* C11 witness: 2025-04-08 was formatted with 'yyyy-MM-dd'
C11_Witness ==
    /\ op = "formatDate"
    /\ args.formatStr = <<"y", "y", "y", "y", "-", "M", "M", "-", "d", "d">>
    /\ res = <<"2", "0", "2", "5", "-", "0", "4", "-", "0", "8">>

----------------------------------------------------------------------------
(* Properties of the epoch conversions, under SpecEpoch *)

\* C12 as claimed: for every integer number of seconds s, negative or not,
\* dateToUnixEpoch(unixEpochToDate(s)) is s; dateToUnixEpoch of an instant of
\* m ms is floor(m / 1000) and unixEpochToMilliseconds(s) is s * 1000.
C12_RoundTripEverySecond ==
    /\ op = "unixEpochToDate" => dateToUnixEpoch(res) = args.epochSeconds
    /\ op = "dateToUnixEpoch" =>
            \E r \in 0..999 : Times1000(res) = Num(args.date.hi, args.date.lo - r)
    /\ op = "unixEpochToMilliseconds" =>
            (FloorDiv1000(res) = args.epochSeconds /\ res.lo % 1000 = 0)

\* C12 amended: the round trip holds for every integer s whose instant a Date
\* can hold (|s| <= 8640000000000); beyond it unixEpochToDate gives an Invalid
\* Date and dateToUnixEpoch gives NaN.  The other two parts are as claimed.
C12_RoundTripInRange ==
    LET limit == Num(MaxDateDays \div 1000, 0)
        inRange(s) == ~NumLT(limit, s) /\ ~NumLT(s, Num(0 - limit.hi, 0))
    IN /\ op = "unixEpochToDate" =>
            IF inRange(args.epochSeconds)
            THEN ~res.nan /\ dateToUnixEpoch(res) = args.epochSeconds
            ELSE res.nan /\ dateToUnixEpoch(res).nan
       /\ op = "dateToUnixEpoch" =>
            \E r \in 0..999 : Times1000(res) = Num(args.date.hi, args.date.lo - r)
       /\ op = "unixEpochToMilliseconds" =>
            (FloorDiv1000(res) = args.epochSeconds /\ res.lo % 1000 = 0)

\* C12 witness: a negative number of seconds came back from the round trip
C12_Witness ==
    /\ op = "unixEpochToDate"
    /\ args.epochSeconds = Num(0, -123456789)
    /\ ~res.nan
    /\ res.hi < 0
    /\ dateToUnixEpoch(res) = Num(0, -123456789)

\* C14 as documented: 1745222400 s and 2025-04-24T00:00:00Z are the same
\* instant for dateToUnixEpoch, unixEpochToDate and epochMillisecondsToDate,
\* and formatEpochMilliseconds(1745222400000) is "2025-04-24".
C14_DocumentedEpoch ==
    LET april24 == Num(DaysFromCivil(2025, 4, 24), 0)
        seconds == Num(0, 1745222400)
    IN /\ (op = "dateToUnixEpoch" /\ args.date = april24) => res = seconds
       /\ (op = "unixEpochToDate" /\ args.epochSeconds = seconds) => res = april24
       /\ (op = "epochMillisecondsToDate" /\ args.epochMilliseconds = Times1000(seconds)) =>
            res = april24
       /\ (/\ op = "formatEpochMilliseconds"
           /\ args.epochMilliseconds = Times1000(seconds)
           /\ args.format = <<"y", "y", "y", "y", "-", "M", "M", "-", "d", "d">>) =>
            res = <<"2", "0", "2", "5", "-", "0", "4", "-", "2", "4">>

----------------------------------------------------------------------------
(* Further properties of the weekday calls, under SpecWeekday *)

\* C13 as documented: getDayIndex takes a name in any format, the capitalised
\* 'Monday' giving 1 as the Korean short name of Monday does.
C13_CapitalisedName ==
    /\ (op = "getDayIndex" /\ args.day = "Monday") => res = Some(1)
    /\ (op = "getDayIndex" /\ args.day = DAY_MAPPINGS["ko-short"][2]) => res = Some(1)

----------------------------------------------------------------------------
(* Further properties of the date-picker range, under SpecPicker *)

\* C15: when start <= end (an empty side being today), every date found
\* selectable is on a calendar day from the day of start to the day of end,
\* whatever today is and whichever case of isDateDisabled applies.
C15_SelectableInRange ==
    (op = "isDateDisabled") =>
        LET start == IF args.startDateStr # <<>> THEN ParseDate(args.startDateStr)
                     ELSE args.today
            end == IF args.endDateStr # <<>> THEN ParseDate(args.endDateStr)
                   ELSE args.today
            wellFormed == start.hi < end.hi \/ (start.hi = end.hi /\ start.lo <= end.lo)
        IN (wellFormed /\ res = FALSE) =>
              /\ LocalDay(start, tz) <= LocalDay(args.date, tz)
              /\ LocalDay(args.date, tz) <= LocalDay(end, tz)

\* C15 witness: in the case "end is today" with start on an earlier day, the
\* date found selectable is on the day of end
C15_Witness ==
    /\ op = "isDateDisabled"
    /\ args.startDateStr # <<>>
    /\ args.endDateStr # <<>>
    /\ LocalDay(ParseDate(args.startDateStr), tz) < LocalDay(ParseDate(args.endDateStr), tz)
    /\ LocalDay(ParseDate(args.endDateStr), tz) = LocalDay(args.today, tz)
    /\ res = FALSE
    /\ LocalDay(args.date, tz) = LocalDay(ParseDate(args.endDateStr), tz)

====
